---- MODULE Spec2Model ----
(***************************************************************************)
(* d3-weather-scatterplot: the scatter plot of daily minimum / maximum     *)
(* temperature with marginal histograms, a time-of-year legend and         *)
(* Voronoi-driven tooltips.                                                *)
(*                                                                         *)
(* The script is one async function: it loads the CSV, then builds the     *)
(* scales, the dots, the Voronoi cells, the legend, the histograms and the *)
(* handlers in one synchronous run; after that the browser delivers mouse  *)
(* events, one handler at a time.  Three snapshots of the script are kept  *)
(* in the repository and are modelled as `variant`:                        *)
(*   "main"      src/src/main.ts 1-408       (the full chart)              *)
(*   "part_001"  src/unnamed/part_001 57-244 (dots, Voronoi, tooltip)      *)
(*   "part_000"  src/unnamed/part_000 1-80   (scales only, x/y swapped)    *)
(*                                                                         *)
(* Numbers.  Temperatures are integers or NaN.  Pixel positions produced   *)
(* by a linear scale are exact rationals [n, d] (d = 0 is NaN).  Legend    *)
(* coordinates are in quarter pixels, so that legendWidth * 0.05 / 2 =     *)
(* 6.25 px is an integer.  Legend dates are minutes since the start of the *)
(* legend scale's domain (1 Jan 2000, local time).                         *)
(***************************************************************************)
EXTENDS Integers, Sequences, FiniteSets, TLC

VARIABLES
    variant,              \* which snapshot of the script runs
    window,               \* <<innerWidth, innerHeight>>
    csv,                  \* the file: [fails, rows]
    pc,                   \* position of the script
    data,                 \* Datum[]
    loaded,               \* history: data as returned by the load
    xScale, yScale,       \* linear scales [domain, range]
    dots,                 \* the scatter plot's circles
    voronoi,              \* clip rectangle of the Voronoi diagram
    voronoiCells,         \* one path per datum
    legendHighlightGroup, \* [attr, style] opacity of the highlight group
    legendValueTicks,     \* opacity attribute of the tick marks
    legendValues,         \* opacity attribute of the tick labels
    legendHighlightBar,   \* x attribute of the bar (quarter px)
    legendHighlightText,  \* the two formatted dates
    legendHighlightDates, \* minDateToHighlight, maxDateToHighlight (minutes)
    topHistogramBins, rightHistogramBins,
    topHistogramYScale, rightHistogramYScale,
    tooltip,              \* [opacity, x, y, date, minTemperature, maxTemperature]
    hoverGroup,           \* [opacity, dots]
    horizontalLine, verticalLine,
    hovered,              \* the cell the pointer is in (0: none); DOM state
    lastLegendEvent,      \* history: "none", "move", "leave"
    lastLegendX,          \* history: pointer x of the last legend move
    lastVoronoiEvent      \* history: "none", "enter", "leave"

vars == <<variant, window, csv, pc, data, loaded, xScale, yScale, dots, voronoi,
          voronoiCells, legendHighlightGroup, legendValueTicks, legendValues,
          legendHighlightBar, legendHighlightText, legendHighlightDates,
          topHistogramBins, rightHistogramBins, topHistogramYScale,
          rightHistogramYScale, tooltip, hoverGroup, horizontalLine,
          verticalLine, hovered, lastLegendEvent, lastLegendX,
          lastVoronoiEvent>>

-----------------------------------------------------------------------------
(* Bounds of the model *)

MaxRows == 2

Variants == {"main", "part_001", "part_000"}

\* browser windows: size = 0.75 * min(innerWidth, innerHeight)
Windows == {<<960, 720>>}

-----------------------------------------------------------------------------
(* Numbers *)

\* the Number that a non-numeric CSV cell coerces to
NaN == -99999

IsNaN(v) == v = NaN

Min2(a, b) == IF a <= b THEN a ELSE b
Max2(a, b) == IF a >= b THEN a ELSE b

RECURSIVE Pow10(_)
Pow10(k) == IF k <= 0 THEN 1 ELSE 10 * Pow10(k - 1)

\* rationals [n, d] with d > 0; d = 0 stands for NaN / undefined
NaNPx == [n |-> 0, d |-> 0]
Px(k) == [n |-> k, d |-> 1]
RatIsNaN(r) == r.d = 0
RatAddInt(r, k) == IF r.d = 0 THEN r ELSE [n |-> r.n + k * r.d, d |-> r.d]
RatNeg(r) == [n |-> 0 - r.n, d |-> r.d]
RatEq(r, s) == IF r.d = 0 \/ s.d = 0 THEN r.d = s.d ELSE r.n * s.d = s.n * r.d
RatLeq(r, s) == r.d # 0 /\ s.d # 0 /\ r.n * s.d <= s.n * r.d
RatAdd(r, s) == IF r.d = 0 \/ s.d = 0 THEN NaNPx ELSE [n |-> r.n * s.d + s.n * r.d, d |-> r.d * s.d]

\* quarter pixels of the legend's coordinate space
Q(px) == 4 * px

-----------------------------------------------------------------------------
(* Program constants *)

margin == [top |-> 90, right |-> 90, bottom |-> 50, left |-> 50]
histogramMargin == 10
histogramHeight == 70
legendWidth == 250
legendHeight == 26
colorScaleYear == 2000
hoverLineThickness == 10
binThresholds == 20
niceCount == 10

size == (3 * Min2(window[1], window[2])) \div 4
width == size - margin.left - margin.right
height == size - margin.top - margin.bottom

\* accessors: main.ts and part_001 plot tempmin on x; part_000 plots tempmax
xAccessor(d) == IF variant = "part_000" THEN d.tempmax ELSE d.tempmin
yAccessor(d) == IF variant = "part_000" THEN d.tempmin ELSE d.tempmax

-----------------------------------------------------------------------------
(* The CSV file and its parsing *)

\* a numeric cell holds decimal text; Malformed is a cell that is no number
Malformed == 99999
RawTempMins == {-3, 5, Malformed}
RawTempMaxs == {5, 21, Malformed}

\* a date cell "y-a-b", or text that is no such triple (ok = FALSE)
RawDates == {[ok |-> TRUE, y |-> 2018, a |-> 7, b |-> 4],
             [ok |-> FALSE, y |-> 0, a |-> 0, b |-> 0]}

RawRows == [tempmin : RawTempMins, tempmax : RawTempMaxs, datetime : RawDates]

RECURSIVE SeqsUpTo(_, _)
SeqsUpTo(S, k) ==
    IF k = 0 THEN {<<>>}
    ELSE LET shorter == SeqsUpTo(S, k - 1)
         IN shorter \cup {Append(s, x) : s \in {t \in shorter : Len(t) = k - 1}, x \in S}

\* unary plus on a CSV cell
ToNumber(cell) == IF cell = Malformed THEN NaN ELSE cell

NullDate == [valid |-> FALSE, year |-> 0, month |-> 0, day |-> 0]

\* d3.timeParse: null when the text does not match the format
dateFormat == IF variant = "part_000" THEN "%Y-%d-%m" ELSE "%Y-%m-%d"
parseDate(text) ==
    IF ~text.ok THEN NullDate
    ELSE IF dateFormat = "%Y-%m-%d"
         THEN [valid |-> TRUE, year |-> text.y, month |-> text.a, day |-> text.b]
         ELSE [valid |-> TRUE, year |-> text.y, month |-> text.b, day |-> text.a]

ParseRow(d) == [tempmin  |-> ToNumber(d.tempmin),
                tempmax  |-> ToNumber(d.tempmax),
                datetime |-> parseDate(d.datetime)]

-----------------------------------------------------------------------------
(* d3-array: extent, tickIncrement, ticks; d3-scale: linear scales *)

RECURSIVE SeqMin(_), SeqMax(_)
SeqMin(s) == IF Len(s) = 1 THEN s[1] ELSE Min2(s[1], SeqMin(Tail(s)))
SeqMax(s) == IF Len(s) = 1 THEN s[1] ELSE Max2(s[1], SeqMax(Tail(s)))

\* d3.extent skips the values that do not compare (NaN); with none left it
\* returns [undefined, undefined], which a scale's domain coerces to NaN
extent(values) ==
    LET comparable == SelectSeq(values, LAMBDA v : ~IsNaN(v))
    IN IF Len(comparable) = 0 THEN <<NaN, NaN>>
       ELSE <<SeqMin(comparable), SeqMax(comparable)>>

\* floor(log10(span / count)) for span > 0
tickPower(span, count) ==
    IF span >= count
    THEN CHOOSE p \in 0..6 : Pow10(p) * count <= span /\ Pow10(p + 1) * count > span
    ELSE 0 - (CHOOSE q \in 1..6 : span * Pow10(q) >= count /\ span * Pow10(q - 1) < count)

\* error >= sqrt(50) ? 10 : error >= sqrt(10) ? 5 : error >= sqrt(2) ? 2 : 1
\* where error = (span / count) / 10^power, compared on the squares
tickFactor(span, count, power) ==
    LET num == IF power >= 0 THEN span ELSE span * Pow10(0 - power)
        den == IF power >= 0 THEN count * Pow10(power) ELSE count
    IN IF num * num >= 50 * den * den THEN 10
       ELSE IF num * num >= 10 * den * den THEN 5
       ELSE IF num * num >= 2 * den * den THEN 2
       ELSE 1

\* d3.tickIncrement.  The result s > 0 is the step s; s < 0 is the step
\* 1 / (-s); 0 stands for the results that are no usable step (NaN for a NaN
\* domain, -Infinity for start = stop).
tickIncrement(start, stop, count) ==
    IF IsNaN(start) \/ IsNaN(stop) \/ stop <= start THEN 0
    ELSE LET span   == stop - start
             power  == tickPower(span, count)
             factor == tickFactor(span, count, power)
         IN IF power >= 0 THEN factor * Pow10(power)
            ELSE 0 - (Pow10(0 - power) \div factor)

FloorTo(v, step) == (v \div step) * step
CeilTo(v, step) == 0 - (((0 - v) \div step) * step)

\* the loop of scale.nice(): at most 10 rounds, until the step repeats.  With
\* integer bounds a fractional step (s < 0) leaves both bounds where they are;
\* a step that is NaN or infinite leaves the domain untouched.
RECURSIVE niceLoop(_, _, _, _, _)
niceLoop(dom, start, stop, prestep, maxIter) ==
    IF maxIter = 0 THEN dom
    ELSE LET step == tickIncrement(start, stop, niceCount)
         IN IF step = 0 THEN dom
            ELSE IF step = prestep THEN <<start, stop>>
            ELSE IF step > 0
                 THEN niceLoop(dom, FloorTo(start, step), CeilTo(stop, step), step, maxIter - 1)
                 ELSE niceLoop(dom, start, stop, step, maxIter - 1)

nice(dom) == niceLoop(dom, dom[1], dom[2], 0, 10)

scaleLinear(dom, rng) == [domain |-> dom, range |-> rng]

NoScale == scaleLinear(<<NaN, NaN>>, <<0, 0>>)

\* scale(v): r0 + (v - d0) / (d1 - d0) * (r1 - r0); a domain of zero width
\* maps everything to the middle of the range; NaN in, NaN out
ScaleApply(scale, v) ==
    LET d0 == scale.domain[1]
        d1 == scale.domain[2]
        r0 == scale.range[1]
        r1 == scale.range[2]
    IN IF IsNaN(v) \/ IsNaN(d0) \/ IsNaN(d1) THEN NaNPx
       ELSE IF d1 = d0 THEN [n |-> r0 + r1, d |-> 2]
       ELSE IF d1 > d0 THEN [n |-> r0 * (d1 - d0) + (v - d0) * (r1 - r0), d |-> d1 - d0]
       ELSE [n |-> r0 * (d0 - d1) + (d0 - v) * (r1 - r0), d |-> d0 - d1]

\* scale.invert(r) of a scale with an exact integer slope, floored
ScaleInvert(scale, r) ==
    LET d0 == scale.domain[1]
        d1 == scale.domain[2]
        r0 == scale.range[1]
        r1 == scale.range[2]
    IN d0 + ((r - r0) * (d1 - d0)) \div (r1 - r0)

SeqMap(f(_), s) == [i \in 1..Len(s) |-> f(s[i])]

temperaturesExtent == extent(SeqMap(xAccessor, data) \o SeqMap(yAccessor, data))
buildXScale == scaleLinear(nice(temperaturesExtent), <<0, width>>)
\* variation: the y scale takes the extent of its own accessor only
buildYScale_ownExtent == scaleLinear(nice(extent(SeqMap(yAccessor, data))), <<height, 0>>)
buildYScale == scaleLinear(nice(temperaturesExtent), <<height, 0>>)

-----------------------------------------------------------------------------
(* Dates: JavaScript Date and d3-time-format, in the proleptic Gregorian   *)
(* calendar; a time value is a number of minutes since 1 Jan 2000 00:00    *)

MinutesPerDay == 24 * 60

\* days from 1 Jan 1970 to the civil date y-m-d
DaysFromCivil(y, m, d) ==
    LET yy  == IF m <= 2 THEN y - 1 ELSE y
        era == yy \div 400
        yoe == yy - era * 400
        mp  == IF m > 2 THEN m - 3 ELSE m + 9
        doy == (153 * mp + 2) \div 5 + d - 1
        doe == yoe * 365 + yoe \div 4 - yoe \div 100 + doy
    IN era * 146097 + doe - 719468

\* the civil date [year, month, day] of a day number counted from 1 Jan 1970
CivilFromDays(z0) ==
    LET z   == z0 + 719468
        era == z \div 146097
        doe == z - era * 146097
        yoe == (doe - doe \div 1460 + doe \div 36524 - doe \div 146096) \div 365
        doy == doe - (365 * yoe + yoe \div 4 - yoe \div 100)
        mp  == (5 * doy + 2) \div 153
        d   == doy - (153 * mp + 2) \div 5 + 1
        m   == IF mp < 10 THEN mp + 3 ELSE mp - 9
        y   == yoe + era * 400 + (IF m <= 2 THEN 1 ELSE 0)
    IN [valid |-> TRUE, year |-> y, month |-> m, day |-> d]

EpochDay == DaysFromCivil(colorScaleYear, 1, 1)

\* Date.getTime() of a local midnight
TimeOf(date) == (DaysFromCivil(date.year, date.month, date.day) - EpochDay) * MinutesPerDay

\* new Date(time)
DateOf(time) == CivilFromDays(time \div MinutesPerDay + EpochDay)

\* d3.timeFormat('%d %b') and ('%d %B'): day of month and month
formatDate(date) == <<date.day, date.month>>

\* d3.format('.1f'): the number rounded to tenths, as a count of tenths
formatNumber(v) == IF IsNaN(v) THEN NaN ELSE 10 * v

\* Date.prototype.setFullYear(year): changes the year of the Date object and
\* keeps month and day (year 2000 is a leap year, so 29 Feb stays 29 Feb)
setFullYear(date, year) == [date EXCEPT !.year = year]

\* colorAccessor: d.datetime.setFullYear(colorScaleYear) returns the new time
\* value; the Date of the datum is changed in place
colorAccessorValue(d) == TimeOf(setFullYear(d.datetime, colorScaleYear))
colorAccessorEffect(d) == [d EXCEPT !.datetime = setFullYear(d.datetime, colorScaleYear)]

colorScaleDomain ==
    <<TimeOf([valid |-> TRUE, year |-> colorScaleYear, month |-> 1, day |-> 1]),
      TimeOf([valid |-> TRUE, year |-> colorScaleYear, month |-> 12, day |-> 31])>>

\* colorScale(t) = interpolateRainbow(-(t - t0) / (t1 - t0)): the colour is
\* identified by the argument handed to interpolateRainbow
colorScale(t) ==
    [n |-> 0 - (t - colorScaleDomain[1]), d |-> colorScaleDomain[2] - colorScaleDomain[1]]

-----------------------------------------------------------------------------
(* Legend *)

legendTickScale == scaleLinear(colorScaleDomain, <<0, Q(legendWidth)>>)

\* legendWidth * 0.05
legendHighlightBarWidth == (Q(legendWidth) * 5) \div 100

\* d3.median of three numbers: the middle one
median3(a, b, c) ==
    CHOOSE m \in {a, b, c} :
        /\ Cardinality({i \in 1..3 : <<a, b, c>>[i] <= m}) >= 2
        /\ Cardinality({i \in 1..3 : <<a, b, c>>[i] >= m}) >= 2

\* variation: the bar follows the pointer without the clamp
legendBarX_unclamped(x) == x - legendHighlightBarWidth \div 2

\* the x attribute of the highlight bar for pointer x
legendBarX(x) ==
    median3(0, x - legendHighlightBarWidth \div 2, Q(legendWidth) - legendHighlightBarWidth)

minDateToHighlight(x) == ScaleInvert(legendTickScale, x - legendHighlightBarWidth \div 2)
maxDateToHighlight(x) == ScaleInvert(legendTickScale, x + legendHighlightBarWidth \div 2)

Opacity(el) == IF el.styled THEN el.style ELSE el.attr

-----------------------------------------------------------------------------
(* Histograms: d3.bin().domain(scale.domain()).value(accessor).thresholds(20) *)
(* Bin bounds are numerators over the bin's `den` (the tick step may be a    *)
(* fraction 1/den); `items` are the indices of the data in the bin.          *)

\* denominator and numerator step of the uniform thresholds ticks(x0, x1, 20)
binDen(x0, x1) ==
    LET s == tickIncrement(x0, x1, binThresholds) IN IF s < 0 THEN 0 - s ELSE 1
binUnit(x0, x1) ==
    LET s == tickIncrement(x0, x1, binThresholds) IN IF s > 0 THEN s ELSE 1

\* the thresholds: the ticks strictly inside the domain (a tick at or below
\* x0 is dropped, a tick at x1 is popped), as numerators over binDen
binThresholdsOf(x0, x1) ==
    IF IsNaN(x0) \/ IsNaN(x1) \/ x0 >= x1 THEN <<>>
    ELSE LET den   == binDen(x0, x1)
             unit  == binUnit(x0, x1)
             lo    == x0 * den
             hi    == x1 * den
             first == CeilTo(lo + 1, unit)
             m     == IF first >= hi THEN 0 ELSE (hi - 1 - first) \div unit + 1
         IN [i \in 1..m |-> first + (i - 1) * unit]

\* d3.bisectRight(tz, v): the number of thresholds <= v
bisect(tz, v) == Cardinality({i \in 1..Len(tz) : tz[i] <= v})

\* variation: the domain's upper bound is excluded
binned_halfOpen(x0, x1, x) == ~IsNaN(x) /\ ~IsNaN(x0) /\ ~IsNaN(x1) /\ x0 <= x /\ x < x1

\* a value is binned when x0 <= x <= x1 (NaN never is)
binned(x0, x1, x) == ~IsNaN(x) /\ ~IsNaN(x0) /\ ~IsNaN(x1) /\ x0 <= x /\ x <= x1

RECURSIVE SetToSortedSeq(_)
SetToSortedSeq(S) ==
    IF S = {} THEN <<>>
    ELSE LET least == CHOOSE a \in S : \A b \in S : a <= b
         IN <<least>> \o SetToSortedSeq(S \ {least})

binValueBin(tz, den, x) == bisect(tz, x * den)

\* values[i] is the accessor's value of datum i
bin(values, dom) ==
    LET x0  == dom[1]
        x1  == dom[2]
        den == IF IsNaN(x0) \/ IsNaN(x1) \/ x0 >= x1 THEN 1 ELSE binDen(x0, x1)
        tz  == binThresholdsOf(x0, x1)
        m   == Len(tz)
    IN [b \in 1..(m + 1) |->
          [x0    |-> IF b = 1 THEN (IF IsNaN(x0) THEN NaN ELSE x0 * den) ELSE tz[b - 1],
           x1    |-> IF b = m + 1 THEN (IF IsNaN(x1) THEN NaN ELSE x1 * den) ELSE tz[b],
           den   |-> den,
           items |-> SetToSortedSeq({i \in 1..Len(values) :
                        /\ binned(x0, x1, values[i])
                        /\ binValueBin(tz, den, values[i]) + 1 = b})]]

binLength(b) == Len(b.items)

\* scaleLinear().domain(d3.extent(bins, d => d.length)).range([histogramHeight, 0])
histogramYScale(bins) == scaleLinear(extent(SeqMap(binLength, bins)), <<histogramHeight, 0>>)

-----------------------------------------------------------------------------
(* Dots and Voronoi cells *)

NoFill == NaNPx

site(d) == <<ScaleApply(xScale, xAccessor(d)), ScaleApply(yScale, yAccessor(d))>>

\* selection.data(data).enter().append('circle'): element i is bound to data[i]
circle(d) == [datum |-> d, cx |-> site(d)[1], cy |-> site(d)[2], r |-> 4, fill |-> NoFill]

\* the first datum whose datetime is null: colorAccessor throws there
firstNullDate(rows) ==
    IF \E i \in 1..Len(rows) : ~rows[i].datetime.valid
    THEN CHOOSE i \in 1..Len(rows) :
            /\ ~rows[i].datetime.valid
            /\ \A j \in 1..(i - 1) : rows[j].datetime.valid
    ELSE Len(rows) + 1

\* voronoi.xmax = width; voronoi.ymax = height on the default [0, 0, 960, 500]
voronoiBounds == [xmin |-> 0, ymin |-> 0, xmax |-> width, ymax |-> height]

\* variation: the paths are bound to the data in reverse order
voronoiCell_reversed(rows, i) ==
    [datum |-> rows[Len(rows) + 1 - i], cell |-> i, site |-> site(rows[i]), clip |-> voronoiBounds]

\* selection.data(data).enter().append('path'): path i is bound to data[i] and
\* drawn as voronoi.renderCell(i), the cell of site i = Delaunay point i
voronoiCell(rows, i) == [datum |-> rows[i], cell |-> i, site |-> site(rows[i]), clip |-> voronoiBounds]

buildVoronoiCells(rows) == [i \in 1..Len(rows) |-> voronoiCell(rows, i)]

-----------------------------------------------------------------------------
(* Elements *)

\* an element that has not been appended yet
NoElement == [exists |-> FALSE, attr |-> 1, styled |-> FALSE, style |-> 1]
\* an appended element: `attr` is its opacity attribute (1 when it has none),
\* `style` its inline style opacity once `styled`
Element(attrOpacity) == [exists |-> TRUE, attr |-> attrOpacity, styled |-> FALSE, style |-> 1]
SetStyleOpacity(el, o) == [el EXCEPT !.styled = TRUE, !.style = o]
SetAttrOpacity(el, o) == [el EXCEPT !.attr = o]

NoRect == [x |-> NaNPx, y |-> NaNPx, width |-> NaNPx, height |-> NaNPx]
NoText == <<0, 0>>

NoTooltip == [styled |-> FALSE, style |-> 1, x |-> NaNPx, y |-> NaNPx,
              date |-> NoText, minTemperature |-> NaN, maxTemperature |-> NaN]

NoHoverGroup == [exists |-> FALSE, styled |-> FALSE, style |-> 1, dots |-> <<>>]

-----------------------------------------------------------------------------
(* The script *)

Init ==
    /\ variant \in Variants
    /\ window \in Windows
    /\ csv \in {[fails |-> TRUE, rows |-> <<>>]}
               \cup [fails : {FALSE}, rows : SeqsUpTo(RawRows, MaxRows)]
    /\ pc = "load"
    /\ data = <<>>
    /\ loaded = <<>>
    /\ xScale = NoScale
    /\ yScale = NoScale
    /\ dots = <<>>
    /\ voronoi = [xmin |-> 0, ymin |-> 0, xmax |-> 0, ymax |-> 0]
    /\ voronoiCells = <<>>
    /\ legendHighlightGroup = NoElement
    /\ legendValueTicks = NoElement
    /\ legendValues = NoElement
    /\ legendHighlightBar = 0
    /\ legendHighlightText = <<NoText, NoText>>
    /\ legendHighlightDates = <<0, 0>>
    /\ topHistogramBins = <<>>
    /\ rightHistogramBins = <<>>
    /\ topHistogramYScale = NoScale
    /\ rightHistogramYScale = NoScale
    /\ tooltip = NoTooltip
    /\ hoverGroup = NoHoverGroup
    /\ horizontalLine = NoRect
    /\ verticalLine = NoRect
    /\ hovered = 0
    /\ lastLegendEvent = "none"
    /\ lastLegendX = 0
    /\ lastVoronoiEvent = "none"

legendVars == <<legendHighlightGroup, legendValueTicks, legendValues,
                legendHighlightBar, legendHighlightText, legendHighlightDates,
                lastLegendEvent, lastLegendX>>
histogramVars == <<topHistogramBins, rightHistogramBins, topHistogramYScale,
                   rightHistogramYScale>>
hoverVars == <<tooltip, hoverGroup, horizontalLine, verticalLine, hovered,
               lastVoronoiEvent>>
inputVars == <<variant, window, csv>>

\* d3.csv with the row conversion; a rejected load is caught and logged, and
\* the script goes on with data = []
loadData == IF csv.fails THEN <<>> ELSE SeqMap(ParseRow, csv.rows)

LoadData ==
    /\ pc = "load"
    /\ data' = loadData
    /\ loaded' = loadData
    /\ pc' = "scales"
    /\ UNCHANGED <<inputVars, xScale, yScale, dots, voronoi, voronoiCells,
                   legendVars, histogramVars, hoverVars>>

\* canvas, accessors and scales; part_001 appends its hoverGroup here, and
\* part_000 ends after the scales
BuildScales ==
    /\ pc = "scales"
    /\ xScale' = buildXScale
    /\ yScale' = buildYScale
    /\ hoverGroup' = IF variant = "part_001"
                     THEN [hoverGroup EXCEPT !.exists = TRUE] ELSE hoverGroup
    /\ pc' = IF variant = "part_000" THEN "done" ELSE "dots"
    /\ UNCHANGED <<inputVars, data, loaded, dots, voronoi, voronoiCells,
                   legendVars, histogramVars, tooltip, horizontalLine,
                   verticalLine, hovered, lastVoronoiEvent>>

\* the circles: cx and cy for every datum, then fill for one datum after the
\* other; colorAccessor changes the datum's Date in place, and throws on a
\* null datetime, which ends the script (the promise rejects, nothing catches)
filledRows(rows) == firstNullDate(rows) - 1

dataAfterFill(rows) ==
    [i \in 1..Len(rows) |-> IF i <= filledRows(rows) THEN colorAccessorEffect(rows[i]) ELSE rows[i]]

dotsAfterFill(rows) ==
    [i \in 1..Len(rows) |->
        IF i <= filledRows(rows)
        THEN [circle(rows[i]) EXCEPT !.datum = colorAccessorEffect(rows[i]),
                                     !.fill = colorScale(colorAccessorValue(rows[i]))]
        ELSE circle(rows[i])]

DrawDots ==
    /\ pc = "dots"
    /\ data' = dataAfterFill(data)
    /\ dots' = dotsAfterFill(data)
    /\ pc' = IF filledRows(data) < Len(data) THEN "crashed" ELSE "voronoi"
    /\ UNCHANGED <<inputVars, loaded, xScale, yScale, voronoi, voronoiCells,
                   legendVars, histogramVars, hoverVars>>

BuildVoronoi ==
    /\ pc = "voronoi"
    /\ voronoi' = voronoiBounds
    /\ voronoiCells' = buildVoronoiCells(data)
    /\ pc' = IF variant = "main" THEN "legend" ELSE "hover"
    /\ UNCHANGED <<inputVars, data, loaded, xScale, yScale, dots, legendVars,
                   histogramVars, hoverVars>>

\* legend group, gradient, tick labels and marks, highlight group (appended
\* with attr opacity 0), bar and text; the two legend handlers
BuildLegend ==
    /\ pc = "legend"
    /\ legendHighlightGroup' = Element(0)
    /\ legendValueTicks' = Element(1)
    /\ legendValues' = Element(1)
    /\ pc' = "histograms"
    /\ UNCHANGED <<inputVars, data, loaded, xScale, yScale, dots, voronoi,
                   voronoiCells, legendHighlightBar, legendHighlightText,
                   legendHighlightDates, lastLegendEvent, lastLegendX,
                   histogramVars, hoverVars>>

generateTopHistogram(rows) == bin(SeqMap(xAccessor, rows), xScale.domain)
generateRightHistogram(rows) == bin(SeqMap(yAccessor, rows), yScale.domain)

BuildHistograms ==
    /\ pc = "histograms"
    /\ topHistogramBins' = generateTopHistogram(data)
    /\ rightHistogramBins' = generateRightHistogram(data)
    /\ topHistogramYScale' = histogramYScale(generateTopHistogram(data))
    /\ rightHistogramYScale' = histogramYScale(generateRightHistogram(data))
    /\ pc' = "hover"
    /\ UNCHANGED <<inputVars, data, loaded, xScale, yScale, dots, voronoi,
                   voronoiCells, legendVars, hoverVars>>

\* hover group and lines (main.ts), and the two Voronoi handlers
BuildHover ==
    /\ pc = "hover"
    /\ hoverGroup' = [hoverGroup EXCEPT !.exists = TRUE]
    /\ pc' = "done"
    /\ UNCHANGED <<inputVars, data, loaded, xScale, yScale, dots, voronoi,
                   voronoiCells, legendVars, histogramVars, tooltip,
                   horizontalLine, verticalLine, hovered, lastVoronoiEvent>>

-----------------------------------------------------------------------------
(* Event handlers.  The browser delivers events only after the script has  *)
(* run to its end, and one at a time.                                      *)

\* pointer x of a legend event, in quarter pixels of the legend's space
LegendPointerXs ==
    {Q(-500), Q(-1), Q(0), Q(3), Q(6) + 1, Q(7), Q(125), Q(243), Q(244) - 1,
     Q(250), Q(legendWidth + 500)}

legendTextOf(x) ==
    <<formatDate(DateOf(minDateToHighlight(x))), formatDate(DateOf(maxDateToHighlight(x)))>>

onLegendMouseMove(x) ==
    /\ legendHighlightDates' = <<minDateToHighlight(x), maxDateToHighlight(x)>>
    /\ legendHighlightGroup' = SetStyleOpacity(legendHighlightGroup, 1)
    /\ legendValueTicks' = SetAttrOpacity(legendValueTicks, 0)
    /\ legendValues' = SetAttrOpacity(legendValues, 0)
    /\ legendHighlightBar' = legendBarX(x)
    /\ legendHighlightText' = legendTextOf(x)

\* variation: the leave handler hides the highlight and forgets the ticks
onLegendMouseLeave_ticksStayHidden ==
    /\ legendHighlightGroup' = SetStyleOpacity(legendHighlightGroup, 0)
    /\ UNCHANGED <<legendValueTicks, legendValues, legendHighlightBar,
                   legendHighlightText, legendHighlightDates>>

onLegendMouseLeave ==
    /\ legendHighlightGroup' = SetStyleOpacity(legendHighlightGroup, 0)
    /\ legendValueTicks' = SetAttrOpacity(legendValueTicks, 1)
    /\ legendValues' = SetAttrOpacity(legendValues, 1)
    /\ UNCHANGED <<legendHighlightBar, legendHighlightText, legendHighlightDates>>

LegendMouseMove ==
    /\ pc = "done"
    /\ variant = "main"
    /\ \E x \in LegendPointerXs : onLegendMouseMove(x) /\ lastLegendX' = x
    /\ lastLegendEvent' = "move"
    /\ UNCHANGED <<inputVars, pc, data, loaded, xScale, yScale, dots, voronoi,
                   voronoiCells, histogramVars, hoverVars>>

LegendMouseLeave ==
    /\ pc = "done"
    /\ variant = "main"
    /\ onLegendMouseLeave
    /\ lastLegendEvent' = "leave"
    /\ UNCHANGED lastLegendX
    /\ UNCHANGED <<inputVars, pc, data, loaded, xScale, yScale, dots, voronoi,
                   voronoiCells, histogramVars, hoverVars>>

tooltipDot(d) == [cx |-> ScaleApply(xScale, xAccessor(d)), cy |-> ScaleApply(yScale, yAccessor(d)), r |-> 7]

tooltipX(d) == RatAddInt(ScaleApply(xScale, xAccessor(d)), margin.left)
tooltipY(d) == RatAddInt(ScaleApply(yScale, yAccessor(d)), margin.top)

\* the histogram groups' transforms, from a group's local y to the plot:
\* top: translate(0, -histogramHeight - histogramMargin);
\* right: translate(width + histogramMargin + histogramHeight, 0) rotate(90),
\* which turns the local y axis into the plot's x axis, pointing left
topHistogramBoundsY(localY) == 0 - histogramHeight - histogramMargin + localY
rightHistogramBoundsX(localY) == width + histogramMargin + histogramHeight - localY

\* the areas' y0 (the baseline, count 0) and the count scale's range end
\* (the largest count), in the group's local y
histogramAreaBaseline == histogramHeight
histogramAreaPeak == 0

\* variation: the horizontal line stops at the right histogram's baseline
horizontalLineOf_toBaseline(d) ==
    [x      |-> ScaleApply(xScale, xAccessor(d)),
     y      |-> RatAddInt(ScaleApply(yScale, yAccessor(d)), 0 - hoverLineThickness \div 2),
     width  |-> RatAddInt(RatNeg(ScaleApply(xScale, xAccessor(d))), width + histogramMargin),
     height |-> Px(hoverLineThickness)]

horizontalLineOf(d) ==
    [x      |-> ScaleApply(xScale, xAccessor(d)),
     y      |-> RatAddInt(ScaleApply(yScale, yAccessor(d)), 0 - hoverLineThickness \div 2),
     width  |-> RatAddInt(RatNeg(ScaleApply(xScale, xAccessor(d))),
                          width + histogramHeight + histogramMargin),
     height |-> Px(hoverLineThickness)]

verticalLineOf(d) ==
    [x      |-> RatAddInt(ScaleApply(xScale, xAccessor(d)), 0 - hoverLineThickness \div 2),
     y      |-> Px(0 - histogramHeight - histogramMargin),
     width  |-> Px(hoverLineThickness),
     height |-> RatAddInt(ScaleApply(yScale, yAccessor(d)), histogramHeight + histogramMargin)]

tooltipMinTemperature(d) == formatNumber(yAccessor(d))
tooltipMaxTemperature(d) == formatNumber(xAccessor(d))

onVoronoiMouseEnter(d) ==
    /\ tooltip' = [styled |-> TRUE, style |-> 1,
                   x |-> tooltipX(d), y |-> tooltipY(d),
                   date |-> formatDate(d.datetime),
                   minTemperature |-> tooltipMinTemperature(d),
                   maxTemperature |-> tooltipMaxTemperature(d)]
    /\ hoverGroup' = [hoverGroup EXCEPT !.styled = TRUE, !.style = 1,
                                        !.dots = Append(@, tooltipDot(d))]
    /\ horizontalLine' = IF variant = "main" THEN horizontalLineOf(d) ELSE horizontalLine
    /\ verticalLine' = IF variant = "main" THEN verticalLineOf(d) ELSE verticalLine

\* variation: the leave handler leaves the markers in the hover group
hoverGroupAfterLeave_keepsMarkers(g) ==
    IF variant = "main" THEN [g EXCEPT !.styled = TRUE, !.style = 0] ELSE g

\* part_001 hides the tooltip and removes the markers; main.ts also hides
\* the hover group
hoverGroupAfterLeave(g) ==
    IF variant = "main"
    THEN [g EXCEPT !.styled = TRUE, !.style = 0, !.dots = <<>>]
    ELSE [g EXCEPT !.dots = <<>>]

onVoronoiMouseLeave ==
    /\ tooltip' = [tooltip EXCEPT !.styled = TRUE, !.style = 0]
    /\ hoverGroup' = hoverGroupAfterLeave(hoverGroup)
    /\ UNCHANGED <<horizontalLine, verticalLine>>

\* a cell can be entered when it was drawn: a site that is NaN gives no
\* polygon.  Which of several coincident sites owns the polygon depends on
\* the triangulation's internal order, so any of them may be entered.  The
\* pointer leaves a cell before it enters the next one.
cellDrawn(c) == ~RatIsNaN(c.site[1]) /\ ~RatIsNaN(c.site[2])

VoronoiMouseEnter ==
    /\ pc = "done"
    /\ variant \in {"main", "part_001"}
    /\ hovered = 0
    /\ \E i \in 1..Len(voronoiCells) :
          /\ cellDrawn(voronoiCells[i])
          /\ onVoronoiMouseEnter(voronoiCells[i].datum)
          /\ hovered' = i
    /\ lastVoronoiEvent' = "enter"
    /\ UNCHANGED <<inputVars, pc, data, loaded, xScale, yScale, dots, voronoi,
                   voronoiCells, legendVars, histogramVars>>

VoronoiMouseLeave ==
    /\ pc = "done"
    /\ variant \in {"main", "part_001"}
    /\ hovered # 0
    /\ onVoronoiMouseLeave
    /\ hovered' = 0
    /\ lastVoronoiEvent' = "leave"
    /\ UNCHANGED <<inputVars, pc, data, loaded, xScale, yScale, dots, voronoi,
                   voronoiCells, legendVars, histogramVars>>

Next ==
    \/ LoadData
    \/ BuildScales
    \/ DrawDots
    \/ BuildVoronoi
    \/ BuildLegend
    \/ BuildHistograms
    \/ BuildHover
    \/ LegendMouseMove
    \/ LegendMouseLeave
    \/ VoronoiMouseEnter
    \/ VoronoiMouseLeave

Spec == Init /\ [][Next]_vars

-----------------------------------------------------------------------------
(* Properties *)

LegendBuilt == legendHighlightGroup.exists
HighlightShown == Opacity(legendHighlightGroup) = 1
HighlightHidden == Opacity(legendHighlightGroup) = 0
TicksShown == Opacity(legendValueTicks) = 1 /\ Opacity(legendValues) = 1
TicksHidden == Opacity(legendValueTicks) = 0 /\ Opacity(legendValues) = 0

\* C1: after a legend pointer-move at any pointer x, the highlight bar's left
\* edge lies in [0, legendWidth - barWidth], so the bar is inside the strip;
\* x = -500 puts the left edge at 0 and x = legendWidth + 500 puts it at
\* legendWidth - barWidth.
C1_BarInsideLegend ==
    lastLegendEvent = "move" =>
        /\ 0 <= legendHighlightBar
        /\ legendHighlightBar <= Q(legendWidth) - legendHighlightBarWidth
        /\ legendHighlightBar + legendHighlightBarWidth <= Q(legendWidth)
        /\ lastLegendX = Q(-500) => legendHighlightBar = 0
        /\ lastLegendX = Q(legendWidth + 500) =>
              legendHighlightBar = Q(legendWidth) - legendHighlightBarWidth

C1_Witness ==
    /\ lastLegendEvent = "move"
    /\ lastLegendX = Q(legendWidth + 500)
    /\ legendHighlightBar = Q(legendWidth) - legendHighlightBarWidth

\* C2: after a legend pointer-move the displayed minDate and maxDate are the
\* legend scale's inverse of the clamped bar's left and right edge, so both
\* lie in the scale's domain and span exactly barWidth.
C2_DatesOfClampedBar ==
    lastLegendEvent = "move" =>
        /\ legendHighlightDates[1] = ScaleInvert(legendTickScale, legendHighlightBar)
        /\ legendHighlightDates[2] =
              ScaleInvert(legendTickScale, legendHighlightBar + legendHighlightBarWidth)
        /\ legendTickScale.domain[1] <= legendHighlightDates[1]
        /\ legendHighlightDates[2] <= legendTickScale.domain[2]

\* C3: once the legend is built, the highlight group is shown and the tick
\* labels and marks are hidden exactly when the last legend event was a
\* pointer-move; with no event yet, or a pointer-leave last, the highlight
\* group is hidden and the tick labels and marks are shown.
C3_LegendTwoStates ==
    LegendBuilt =>
        /\ lastLegendEvent = "move" => HighlightShown /\ TicksHidden
        /\ lastLegendEvent \in {"none", "leave"} => HighlightHidden /\ TicksShown
        /\ HighlightShown \/ HighlightHidden
        /\ TicksShown \/ TicksHidden

\* a pointer-leave that followed a pointer-move (the bar has been placed)
C3_Witness ==
    /\ lastLegendEvent = "leave"
    /\ legendHighlightBar # 0
    /\ HighlightHidden
    /\ TicksShown

\* C4: no field of a datum changes after the load: every record keeps the
\* tempmin, tempmax and date (year included) that the load produced.
C4_DataNeverMutated == data = loaded

TooltipHidden == tooltip.styled /\ tooltip.style = 0
HoverGroupHidden == hoverGroup.styled /\ hoverGroup.style = 0
NoMarker == hoverGroup.dots = <<>>

C6_BadDateNeverAborts == pc # "crashed"

ScalesBuilt == pc \notin {"load", "scales"}
HistogramsBuilt == variant = "main" /\ pc \in {"hover", "done"}
CellsBuilt == pc \in {"legend", "histograms", "hover", "done"} /\ variant # "part_000"

allTemperatures == [i \in 1..Len(data) |-> data[i].tempmin] \o [i \in 1..Len(data) |-> data[i].tempmax]

InDomain(dom, v) == ~IsNaN(dom[1]) /\ ~IsNaN(dom[2]) /\ dom[1] <= v /\ v <= dom[2]

\* C7: for a non-empty input, once the scales are built xScale.domain equals
\* yScale.domain; both are the niced extent of all tempmin and tempmax
\* values together, and the domain contains every value of both fields.
C7_SharedDomain ==
    (ScalesBuilt /\ Len(data) > 0) =>
        /\ xScale.domain = yScale.domain
        /\ xScale.domain = nice(extent(allTemperatures))
        /\ \A i \in 1..Len(allTemperatures) :
              ~IsNaN(allTemperatures[i]) =>
                  /\ InDomain(xScale.domain, allTemperatures[i])
                  /\ InDomain(yScale.domain, allTemperatures[i])

\* two rows whose union extent (-3, 21) is niced to (-4, 22)
C7_Witness ==
    /\ pc = "done"
    /\ Len(data) = 2
    /\ extent(allTemperatures) = <<-3, 21>>
    /\ xScale.domain = <<-4, 22>>
    /\ yScale.domain = <<-4, 22>>

RECURSIVE SumLengths(_)
SumLengths(bins) == IF bins = <<>> THEN 0 ELSE Len(Head(bins).items) + SumLengths(Tail(bins))

InSeq(x, sq) == \E k \in 1..Len(sq) : sq[k] = x

\* the bins tile the domain: first lower bound and last upper bound are the
\* domain's, each bin starts where the previous one ends, none is reversed
BinsTile(bins, dom) ==
    /\ Len(bins) >= 1
    /\ \A b \in 1..Len(bins) : bins[b].den = bins[1].den /\ bins[b].den >= 1
    /\ bins[1].x0 = (IF IsNaN(dom[1]) THEN NaN ELSE dom[1] * bins[1].den)
    /\ bins[Len(bins)].x1 = (IF IsNaN(dom[2]) THEN NaN ELSE dom[2] * bins[1].den)
    /\ \A b \in 1..(Len(bins) - 1) : bins[b].x1 = bins[b + 1].x0
    /\ Len(bins) > 1 => \A b \in 1..Len(bins) : bins[b].x0 < bins[b].x1

\* every datum with a finite value is in exactly one bin, the bin whose
\* interval holds the value (the last bin is closed on the right); data with
\* a NaN value are in no bin
BinsCount(bins, values) ==
    /\ SumLengths(bins) = Cardinality({i \in 1..Len(values) : ~IsNaN(values[i])})
    /\ \A i \in 1..Len(values) :
          Cardinality({b \in 1..Len(bins) : InSeq(i, bins[b].items)})
              = (IF IsNaN(values[i]) THEN 0 ELSE 1)
    /\ \A b \in 1..Len(bins) : \A k \in 1..Len(bins[b].items) :
          LET v == values[bins[b].items[k]] * bins[b].den
          IN /\ bins[b].x0 <= v
             /\ v <= bins[b].x1
             /\ b < Len(bins) => v < bins[b].x1

\* C8: for a non-empty input, the bins of the top histogram (x accessor) and
\* of the right histogram (y accessor) are contiguous and non-overlapping
\* over the scale's domain, and the bin counts add up to the number of data
\* with a finite accessor value: none dropped (a value equal to the domain
\* maximum included), none counted twice.
C8_BinsPartitionAndCount ==
    (HistogramsBuilt /\ Len(data) > 0) =>
        /\ BinsTile(topHistogramBins, xScale.domain)
        /\ BinsTile(rightHistogramBins, yScale.domain)
        /\ BinsCount(topHistogramBins, [i \in 1..Len(data) |-> data[i].tempmin])
        /\ BinsCount(rightHistogramBins, [i \in 1..Len(data) |-> data[i].tempmax])

\* a datum whose y value is the domain maximum sits in the last of several bins
C8_Witness ==
    /\ HistogramsBuilt
    /\ Len(rightHistogramBins) > 1
    /\ \E i \in 1..Len(data) :
          /\ yAccessor(data[i]) = yScale.domain[2]
          /\ InSeq(i, rightHistogramBins[Len(rightHistogramBins)].items)

maxLength(bins) == SeqMax(SeqMap(binLength, bins))

\* C9: the count scale of each histogram has the domain [0, max(bin.count)]:
\* its lower bound is 0 for every dataset.
C9_CountScaleFromZero ==
    HistogramsBuilt =>
        /\ topHistogramYScale.domain = <<0, maxLength(topHistogramBins)>>
        /\ rightHistogramYScale.domain = <<0, maxLength(rightHistogramBins)>>

expectedSite(d) ==
    <<ScaleApply(xScale, IF variant = "part_000" THEN d.tempmax ELSE d.tempmin),
      ScaleApply(yScale, IF variant = "part_000" THEN d.tempmin ELSE d.tempmax)>>

InsidePlot(p) ==
    /\ RatLeq(Px(0), p[1]) /\ RatLeq(p[1], Px(width))
    /\ RatLeq(Px(0), p[2]) /\ RatLeq(p[2], Px(height))

\* C10: there is one Voronoi cell per datum, cell i is bound to data[i] and
\* generated by the site (xScale(x(data[i])), yScale(y(data[i]))), and the
\* cells are clipped to [0, width] x [0, height]; while cell i is hovered the
\* tooltip (offset by the margins), the marker and both guide lines are
\* positioned at that same site.
C10_CellBoundToDatum ==
    CellsBuilt =>
        /\ Len(voronoiCells) = Len(data)
        /\ voronoi = [xmin |-> 0, ymin |-> 0, xmax |-> width, ymax |-> height]
        /\ \A i \in 1..Len(voronoiCells) :
              /\ voronoiCells[i].datum = data[i]
              /\ voronoiCells[i].cell = i
              /\ voronoiCells[i].site = expectedSite(data[i])
              /\ voronoiCells[i].clip = voronoi
              /\ cellDrawn(voronoiCells[i]) => InsidePlot(voronoiCells[i].site)
        /\ hovered # 0 =>
              LET p == expectedSite(data[hovered])
              IN /\ RatEq(tooltip.x, RatAddInt(p[1], margin.left))
                 /\ RatEq(tooltip.y, RatAddInt(p[2], margin.top))
                 /\ Len(hoverGroup.dots) = 1
                 /\ RatEq(hoverGroup.dots[1].cx, p[1])
                 /\ RatEq(hoverGroup.dots[1].cy, p[2])
                 /\ variant = "main" =>
                       /\ RatEq(horizontalLine.x, p[1])
                       /\ RatEq(RatAddInt(horizontalLine.y, hoverLineThickness \div 2), p[2])
                       /\ RatEq(RatAddInt(verticalLine.x, hoverLineThickness \div 2), p[1])

\* the second of two different data is hovered
C10_Witness ==
    /\ variant = "main"
    /\ lastVoronoiEvent = "enter"
    /\ hovered = 2
    /\ data[1] # data[2]
    /\ ~RatEq(voronoiCells[1].site[1], voronoiCells[2].site[1])

hoveredSite == expectedSite(data[hovered])

\* C11 as stated: while a cell is hovered in main.ts, the horizontal guide
\* starts at the point's x and ends at the right histogram's baseline
\* (x = width + histogramMargin), and the vertical guide runs from the top
\* histogram's baseline (y = -histogramMargin) down to the point's y.
C11_GuidesEndAtBaseline ==
    (variant = "main" /\ hovered # 0) =>
        /\ RatEq(horizontalLine.x, hoveredSite[1])
        /\ RatEq(RatAdd(horizontalLine.x, horizontalLine.width),
                 Px(rightHistogramBoundsX(histogramAreaBaseline)))
        /\ RatEq(verticalLine.y, Px(topHistogramBoundsY(histogramAreaBaseline)))
        /\ RatEq(RatAdd(verticalLine.y, verticalLine.height), hoveredSite[2])

\* C11 as amended: the horizontal guide starts at the point's x and ends at
\* the right histogram band's outer edge (x = width + histogramMargin +
\* histogramHeight), and the vertical guide runs from the top band's outer
\* edge (y = -histogramMargin - histogramHeight) down to the point's y: both
\* guides cross the whole histogram band, baseline to peak.
C11_GuidesCrossHistogramBand ==
    (variant = "main" /\ hovered # 0) =>
        /\ RatEq(horizontalLine.x, hoveredSite[1])
        /\ RatEq(RatAdd(horizontalLine.x, horizontalLine.width),
                 Px(rightHistogramBoundsX(histogramAreaPeak)))
        /\ RatEq(RatAdd(horizontalLine.x, horizontalLine.width),
                 Px(width + histogramMargin + histogramHeight))
        /\ RatLeq(Px(rightHistogramBoundsX(histogramAreaBaseline)),
                  RatAdd(horizontalLine.x, horizontalLine.width))
        /\ RatEq(verticalLine.y, Px(topHistogramBoundsY(histogramAreaPeak)))
        /\ RatEq(verticalLine.y, Px(0 - histogramMargin - histogramHeight))
        /\ RatEq(RatAdd(verticalLine.y, verticalLine.height), hoveredSite[2])
        /\ RatEq(horizontalLine.height, Px(hoverLineThickness))
        /\ RatEq(verticalLine.width, Px(hoverLineThickness))

\* a point strictly inside the plot is hovered
C11_Witness ==
    /\ variant = "main"
    /\ hovered # 0
    /\ lastVoronoiEvent = "enter"
    /\ RatLeq(Px(1), horizontalLine.x)
    /\ RatLeq(horizontalLine.x, Px(width - 1))
    /\ RatEq(RatAdd(horizontalLine.x, horizontalLine.width),
             Px(width + histogramMargin + histogramHeight))

\* C12: while the cell of datum d is hovered, the tooltip's min-temperature
\* field shows d.tempmin and its max-temperature field shows d.tempmax, each
\* formatted to one decimal, in both variants of the handler.
C12_TooltipMinMax ==
    hovered # 0 =>
        /\ tooltip.minTemperature = formatNumber(data[hovered].tempmin)
        /\ tooltip.maxTemperature = formatNumber(data[hovered].tempmax)

====
